---- MODULE Spec2Model ----
(***************************************************************************)
(* Movie-Reviewer-backend (src/index.js): an Express service that looks a  *)
(* movie up in the OMDb catalog, merges the caller's myScore / myReview    *)
(* into the catalog answer and keeps the result in a MongoDB collection    *)
(* through the Mongoose model Movie.                                       *)
(*                                                                         *)
(* The model follows the handlers statement by statement.  Every await of  *)
(* a handler is a scheduling point: the two POST handlers are three steps  *)
(* after their synchronous prefix (catalog reply, findOne, updateOne/save) *)
(* and several of them may be in flight; PATCH, GET and DELETE hold one    *)
(* store call each and are one step.                                       *)
(*                                                                         *)
(* JavaScript values are modelled by what the handlers do with them:       *)
(*   - a string is the sequence of its characters;                         *)
(*   - a number is [nan, neg, i, f]: sign, integer part and the digits     *)
(*     after the decimal point (f = <<>> for an integer);                  *)
(*   - a request-body value is tagged undefined / number / string.         *)
(* Mongoose is the library the code calls; what the model takes from it:   *)
(*   - documents are built and updates are cast against the schema in      *)
(*     strict mode (paths outside the schema are dropped, undefined values *)
(*     are dropped, a Number path is cast with Number(), a failed cast     *)
(*     throws);                                                            *)
(*   - Model.updateOne(filter, doc) with a plain object is {$set: doc};     *)
(*   - _id and __v, which every response but DELETE's projects away, are   *)
(*     not modelled;                                                       *)
(*   - `unique: true` is a unique index of the collection, a write that    *)
(*     would break it throws a duplicate-key error.                        *)
(***************************************************************************)
EXTENDS Integers, Sequences, FiniteSets, TLC

VARIABLES
    store,  \* the documents of the collection, in insertion order
    reqs,   \* per slot, the POST handler suspended there, or Idle
    last,   \* the response being sent, NoResponse once it is delivered
    prev    \* history: the last by-id call answered 201 with no handler in
            \* flight, as long as nothing but a repetition of it has run since

vars == <<store, reqs, last, prev>>

-----------------------------------------------------------------------------
(* Bounds of the model *)

\* number of POST handlers that may be suspended at an await at the same time
MaxInFlight == 2

-----------------------------------------------------------------------------
(* Program constants *)

\* parseInt(myScore, 10)
Radix == 10
\* score < 0 || score > 10
MinScore == 0
MaxScore == 10

-----------------------------------------------------------------------------
(* JavaScript numbers and strings *)

Digits == <<"0", "1", "2", "3", "4", "5", "6", "7", "8", "9">>

IsDigit(c) == \E d \in 1..Len(Digits) : Digits[d] = c

DigitVal(c) == (CHOOSE d \in 1..Len(Digits) : Digits[d] = c) - 1

NaN == [nan |-> TRUE, neg |-> FALSE, i |-> 0, f |-> <<>>]

\* a finite number; minus zero is not told from zero
Num(neg, i, f) == [nan |-> FALSE, neg |-> neg /\ (i # 0 \/ f # <<>>), i |-> i, f |-> f]

isNaN(n) == n.nan

\* n < k and n > k for an integer k >= 0; every comparison with NaN is false
NumLess(n, k) == ~n.nan /\ (n.neg \/ n.i < k)

NumGreater(n, k) == ~n.nan /\ ~n.neg /\ (n.i > k \/ (n.i = k /\ n.f # <<>>))

IsInteger(n) == ~n.nan /\ n.f = <<>>

RECURSIVE IntText(_)
\* the decimal digits of a natural number
IntText(k) ==
    IF k < Radix THEN <<Digits[k + 1]>>
    ELSE IntText(k \div Radix) \o <<Digits[(k % Radix) + 1]>>

RECURSIVE DigitsText(_)
DigitsText(ds) ==
    IF ds = <<>> THEN <<>> ELSE <<Digits[Head(ds) + 1]>> \o DigitsText(Tail(ds))

\* Number::toString for the numbers of the model (no exponent form)
NumberToString(n) ==
    IF n.nan THEN <<"N", "a", "N">>
    ELSE (IF n.neg THEN <<"-">> ELSE <<>>)
         \o IntText(n.i)
         \o (IF n.f = <<>> THEN <<>> ELSE <<".">> \o DigitsText(n.f))

RECURSIVE TrimLeft(_)
TrimLeft(t) == IF t # <<>> /\ Head(t) = " " THEN TrimLeft(Tail(t)) ELSE t

RECURSIVE TrimRight(_)
TrimRight(t) ==
    IF t # <<>> /\ t[Len(t)] = " " THEN TrimRight(SubSeq(t, 1, Len(t) - 1)) ELSE t

RECURSIVE DigitPrefixLen(_)
\* length of the longest prefix of t made of digits
DigitPrefixLen(t) ==
    IF t # <<>> /\ IsDigit(Head(t)) THEN 1 + DigitPrefixLen(Tail(t)) ELSE 0

RECURSIVE DigitsValue(_, _)
\* the value of a digit string, read left to right from acc
DigitsValue(t, acc) ==
    IF t = <<>> THEN acc ELSE DigitsValue(Tail(t), acc * Radix + DigitVal(Head(t)))

RECURSIVE DigitList(_)
DigitList(t) == IF t = <<>> THEN <<>> ELSE <<DigitVal(Head(t))>> \o DigitList(Tail(t))

RECURSIVE StripZeros(_)
StripZeros(ds) ==
    IF ds # <<>> /\ ds[Len(ds)] = 0 THEN StripZeros(SubSeq(ds, 1, Len(ds) - 1)) ELSE ds

HasSign(t) == t # <<>> /\ Head(t) \in {"-", "+"}

Unsigned(t) == IF HasSign(t) THEN Tail(t) ELSE t

\* parseInt(text, 10): leading white space, a sign, then the longest run of
\* digits; whatever follows is ignored; NaN when there is no digit
ParseIntText(text) ==
    LET t == TrimLeft(text)
        u == Unsigned(t)
        n == DigitPrefixLen(u)
    IN  IF n = 0 THEN NaN
        ELSE Num(HasSign(t) /\ Head(t) = "-", DigitsValue(SubSeq(u, 1, n), 0), <<>>)

\* Number(text): the whole trimmed text must be a decimal literal; "" is 0
StringToNumber(text) ==
    LET t == TrimRight(TrimLeft(text))
        u == Unsigned(t)
        n == DigitPrefixLen(u)
        rest == SubSeq(u, n + 1, Len(u))
        frac == IF rest # <<>> /\ Head(rest) = "." THEN Tail(rest) ELSE <<>>
        wellFormed ==
            \/ rest = <<>> /\ n > 0
            \/ /\ rest # <<>> /\ Head(rest) = "."
               /\ DigitPrefixLen(frac) = Len(frac)
               /\ n + Len(frac) > 0
    IN  IF t = <<>> THEN Num(FALSE, 0, <<>>)
        ELSE IF ~wellFormed THEN NaN
        ELSE Num(HasSign(t) /\ Head(t) = "-",
                 DigitsValue(SubSeq(u, 1, n), 0),
                 StripZeros(DigitList(frac)))

-----------------------------------------------------------------------------
(* Values of a JSON request body *)

JsUndefined == [t |-> "undefined"]
JsNumber(n) == [t |-> "number", num |-> n]
JsString(s) == [t |-> "string", str |-> s]

\* ToString of a body value
JsToString(v) ==
    CASE v.t = "undefined" -> <<"u", "n", "d", "e", "f", "i", "n", "e", "d">>
      [] v.t = "number"    -> NumberToString(v.num)
      [] v.t = "string"    -> v.str

\* parseInt(v, 10) converts its argument to a string first
parseInt(v) == ParseIntText(JsToString(v))

-----------------------------------------------------------------------------
(* Documents and the schema *)

\* the paths of movieSchema the model keeps: the key, two catalog paths (one
\* the catalog always sends, one it may leave out) and the two user paths
CatalogPaths == {"Title", "BoxOffice"}
UserPaths == {"myScore", "myReview"}
SchemaPaths == {"imdbID"} \cup CatalogPaths \cup UserPaths

NoDoc == <<>>

Restrict(d, S) == [p \in (DOMAIN d) \cap S |-> d[p]]

\* {...a, ...b}
Spread(a, b) == [p \in (DOMAIN a) \cup (DOMAIN b) |-> IF p \in DOMAIN b THEN b[p] ELSE a[p]]

\* an object literal drops nothing, but a key whose value is undefined is
\* written neither by JSON.stringify nor by Mongoose: it is left out here
Field(name, v) == IF v.t = "undefined" THEN NoDoc ELSE [p \in {name} |-> v]

\* the cast of a Number path: a number is kept, a string goes through Number()
CastNumber(v) == IF v.t = "number" THEN v.num ELSE StringToNumber(v.str)

\* the cast of a String path
CastString(v) == IF v.t = "number" THEN NumberToString(v.num) ELSE v.str

CastFails(d) == "myScore" \in DOMAIN d /\ isNaN(CastNumber(d.myScore))

\* strict mode and the casts of the schema, for new Movie(obj) and for the
\* object of an update alike
Cast(d) ==
    [p \in (DOMAIN d) \cap SchemaPaths |->
        CASE p = "myScore"  -> CastNumber(d[p])
          [] p = "myReview" -> CastString(d[p])
          [] OTHER          -> d[p]]

-----------------------------------------------------------------------------
(* The collection behind the model Movie *)

\* position of the first document with this imdbID, 0 when there is none
IndexOfKey(docs, id) ==
    IF \E i \in 1..Len(docs) : docs[i].imdbID = id
    THEN CHOOSE i \in 1..Len(docs) :
            /\ docs[i].imdbID = id
            /\ \A j \in 1..(i - 1) : docs[j].imdbID # id
    ELSE 0

\* the index was never built: every collection is accepted
UniqueIndexNotBuilt(docs) == TRUE

\* imdbID: { type: String, unique: true }: the unique index accepts a collection
UniqueIndexAccepts(docs) ==
    \A i, j \in 1..Len(docs) : i # j => docs[i].imdbID # docs[j].imdbID

\* Movie.findOne({ imdbID: id }): the document or NoDoc
findOne(docs, id) ==
    LET i == IndexOfKey(docs, id) IN IF i = 0 THEN NoDoc ELSE docs[i]

\* every store call answers [err, docs, doc]: whether it threw, the collection
\* after it, the document it hands back
Threw(docs) == [err |-> TRUE, docs |-> docs, doc |-> NoDoc]
Done(docs, doc) == [err |-> FALSE, docs |-> docs, doc |-> doc]

\* the first match with the update's paths set, the others kept ($set)
ApplySet(docs, i, upd) == [docs EXCEPT ![i] = Spread(docs[i], Cast(upd))]

\* Movie.updateOne({ imdbID: id }, obj): no upsert option, so no match is no write
updateOne(docs, id, obj) ==
    LET i == IndexOfKey(docs, id) IN
    IF CastFails(obj) THEN Threw(docs)
    ELSE IF i = 0 THEN Done(docs, NoDoc)
    ELSE IF ~UniqueIndexAccepts(ApplySet(docs, i, obj)) THEN Threw(docs)
    ELSE Done(ApplySet(docs, i, obj), NoDoc)

\* new Movie(obj).save()
save(docs, obj) ==
    IF CastFails(obj) THEN Threw(docs)
    ELSE IF ~UniqueIndexAccepts(Append(docs, Cast(obj))) THEN Threw(docs)
    ELSE Done(Append(docs, Cast(obj)), Cast(obj))

\* Movie.findOneAndUpdate({ imdbID: id }, { $set: obj }, { new: true, ... })
findOneAndUpdate(docs, id, obj) ==
    LET i == IndexOfKey(docs, id) IN
    IF CastFails(obj) THEN Threw(docs)
    ELSE IF i = 0 THEN Done(docs, NoDoc)
    ELSE IF ~UniqueIndexAccepts(ApplySet(docs, i, obj)) THEN Threw(docs)
    ELSE Done(ApplySet(docs, i, obj), ApplySet(docs, i, obj)[i])

RemoveAt(docs, i) == SubSeq(docs, 1, i - 1) \o SubSeq(docs, i + 1, Len(docs))

\* the document is handed back and stays in the collection
findOneNoDelete(docs, id) ==
    LET i == IndexOfKey(docs, id) IN
    IF i = 0 THEN Done(docs, NoDoc) ELSE Done(docs, docs[i])

\* Movie.findOneAndDelete({ imdbID: id })
findOneAndDelete(docs, id) ==
    LET i == IndexOfKey(docs, id) IN
    IF i = 0 THEN Done(docs, NoDoc) ELSE Done(RemoveAt(docs, i), docs[i])

-----------------------------------------------------------------------------
(* What the environment sends *)

IDs == {"tt1", "tt2"}

Titles == {"m"}

\* myScore of a request body: absent, 10, 10.5, 15, -1, "10a", "a"
ScoreInputs ==
    { JsUndefined,
      JsNumber(Num(FALSE, 10, <<>>)),
      JsNumber(Num(FALSE, 10, <<5>>)),
      JsNumber(Num(FALSE, 15, <<>>)),
      JsNumber(Num(TRUE, 1, <<>>)),
      JsString(<<"1", "0", "a">>),
      JsString(<<"a">>) }

\* myReview of a request body: absent or a text
ReviewInputs == { JsUndefined, JsString(<<"o", "k">>) }

\* the catalog's answers with Response "True": any imdbID and Title, BoxOffice
\* sent or left out; paths outside the schema (Response) come along
CatalogHits ==
    { Spread([Response |-> "True", imdbID |-> i, Title |-> t], b) :
        i \in IDs, t \in {"A"}, b \in {NoDoc, [BoxOffice |-> "$1"]} }

CatalogMiss == [Response |-> "False", Error |-> "Movie not found!"]

\* axios.get settles with a body, or rejects; the imdbID of a hit is the
\* catalog's to choose
CatalogReplies(hits) ==
    { [failed |-> FALSE, data |-> d] : d \in hits \cup {CatalogMiss} }
    \cup { [failed |-> TRUE, data |-> NoDoc] }

\* the requests of the sequential client: every body, the key sent or empty
AllInputs ==
    [ids |-> IDs \cup {""}, titles |-> Titles \cup {""},
     scores |-> ScoreInputs, reviews |-> ReviewInputs, patches |-> ReviewInputs,
     hits |-> CatalogHits, exact |-> FALSE, waits |-> TRUE]

\* the requests of the concurrent clients: POST bodies that pass the
\* validation, without myReview, which PATCH may send; the catalog without
\* BoxOffice
RaceInputs ==
    [ids |-> IDs, titles |-> Titles,
     scores |-> { JsNumber(Num(FALSE, 10, <<>>)) }, reviews |-> { JsUndefined },
     patches |-> ReviewInputs,
     hits |-> { h \in CatalogHits : "BoxOffice" \notin DOMAIN h }, exact |-> FALSE,
     waits |-> FALSE]

\* the same clients with a catalog that answers a lookup by id with the very
\* id it was asked for
ExactInputs == [RaceInputs EXCEPT !.exact = TRUE]

-----------------------------------------------------------------------------
(* The handlers *)

Slots == 1..MaxInFlight

Idle == [pc |-> "idle"]

NoResponse == [op |-> "none"]

NoCall == [req |-> NoDoc]

\* a new handler takes the first free slot
FreeSlot(s) == reqs[s] = Idle /\ \A t \in 1..(s - 1) : reqs[t] # Idle

\* isNaN(score) || score < 0 || score > 10
ScoreRejected(score) ==
    isNaN(score) \/ NumLess(score, MinScore) \/ NumGreater(score, MaxScore)

\* { ...response.data, myScore: score, myReview }
MovieData(data, score, myReview) ==
    Spread(Spread(data, [myScore |-> JsNumber(score)]), Field("myReview", myReview))

Message(text) == [message |-> text]

\* res.status(status).json(body) of the handler op called with req
Respond(op, req, status, body) ==
    last' = [op |-> op, req |-> req, status |-> status, body |-> body]

\* POST /api/review/by-id up to its first await
PostById(s, id, myScore, myReview) ==
    /\ FreeSlot(s)
    /\ LET score == parseInt(myScore)
           req == [id |-> id, myScore |-> myScore, myReview |-> myReview]
       IN  IF id = ""
           THEN /\ Respond("by-id", req, 400, Message("Movie ID is required"))
                /\ UNCHANGED <<store, reqs>>
           ELSE IF ScoreRejected(score)
           THEN /\ Respond("by-id", req, 400, Message("Score must be between 0 and 10"))
                /\ UNCHANGED <<store, reqs>>
           ELSE /\ reqs' = [reqs EXCEPT ![s] =
                               [pc |-> "fetch", op |-> "by-id", id |-> id, myScore |-> myScore,
                                score |-> score, myReview |-> myReview]]
                /\ UNCHANGED <<store, last>>

\* POST /api/review/by-title up to its first await; year only adds &y= to the url
PostByTitle(s, title, myScore, myReview) ==
    /\ FreeSlot(s)
    /\ LET score == parseInt(myScore)
           req == [title |-> title, myScore |-> myScore, myReview |-> myReview]
       IN  IF title = ""
           THEN /\ Respond("by-title", req, 400, Message("Title is required"))
                /\ UNCHANGED <<store, reqs>>
           ELSE IF ScoreRejected(score)
           THEN /\ Respond("by-title", req, 400, Message("Score must be between 0 and 10"))
                /\ UNCHANGED <<store, reqs>>
           ELSE /\ reqs' = [reqs EXCEPT ![s] =
                               [pc |-> "fetch", op |-> "by-title", title |-> title, myScore |-> myScore,
                                score |-> score, myReview |-> myReview]]
                /\ UNCHANGED <<store, last>>

\* what the handler in slot s was called with and has learnt so far
ReqOf(r) == [p \in (DOMAIN r) \ {"pc"} |-> r[p]]

\* const response = await axios.get(apiUrl), then the test of Response
CatalogReply(s, reply) ==
    /\ reqs[s].pc = "fetch"
    /\ IF reply.failed
       THEN /\ Respond(reqs[s].op, ReqOf(reqs[s]), 500, Message("Request failed"))
            /\ reqs' = [reqs EXCEPT ![s] = Idle]
       ELSE IF reply.data.Response = "True"
       THEN /\ reqs' = [reqs EXCEPT ![s] =
                           Spread(reqs[s], [pc |-> "find", data |-> reply.data])]
            /\ UNCHANGED last
       ELSE /\ Respond(reqs[s].op, ReqOf(reqs[s]), 404, Message("Movie not found"))
            /\ reqs' = [reqs EXCEPT ![s] = Idle]
    /\ UNCHANGED store

\* the key of the store calls: by-id uses the id of the request body,
\* by-title uses response.data.imdbID
WriteKey(r) == IF r.op = "by-id" THEN r.id ELSE r.data.imdbID

\* let movie = await Movie.findOne({ imdbID: ... })
FindExisting(s) ==
    /\ reqs[s].pc = "find"
    /\ reqs' = [reqs EXCEPT ![s] =
                   Spread(reqs[s], [pc |-> "write",
                                    found |-> findOne(store, WriteKey(reqs[s])) # NoDoc])]
    /\ UNCHANGED <<store, last>>

\* if (movie) await Movie.updateOne(...) else await new Movie(movieData).save()
WriteCall(docs, r) ==
    IF r.found
    THEN updateOne(docs, WriteKey(r), MovieData(r.data, r.score, r.myReview))
    ELSE save(docs, MovieData(r.data, r.score, r.myReview))

\* the write, then res.status(201).json(movieData), or the catch block
WriteBack(s) ==
    /\ reqs[s].pc = "write"
    /\ LET r == reqs[s]
           w == WriteCall(store, r)
       IN  /\ store' = w.docs
           /\ IF w.err
              THEN Respond(r.op, ReqOf(r), 500, Message("write failed"))
              ELSE Respond(r.op, ReqOf(r), 201, MovieData(r.data, r.score, r.myReview))
    /\ reqs' = [reqs EXCEPT ![s] = Idle]

\* the update object with myReview always in it, empty when the body has none
UpdateDataOverwrites(myScore, myReview) ==
    Spread(Field("myScore", myScore),
           [myReview |-> IF myReview = JsUndefined THEN JsString(<<>>) ELSE myReview])

\* the update object of PATCH: only the fields the body holds, myScore as sent
UpdateData(myScore, myReview) ==
    Spread(Field("myScore", myScore), Field("myReview", myReview))

\* PATCH /api/movies/:imdbID
Patch(imdbID, myScore, myReview) ==
    LET req == [imdbID |-> imdbID, myScore |-> myScore, myReview |-> myReview]
        u == findOneAndUpdate(store, imdbID, UpdateData(myScore, myReview))
    IN  /\ IF myScore # JsUndefined /\ ScoreRejected(parseInt(myScore))
           THEN /\ Respond("patch", req, 400, Message("Score must be between 0 and 10"))
                /\ UNCHANGED store
           ELSE /\ store' = u.docs
                /\ IF u.err THEN Respond("patch", req, 500, Message("Cast to Number failed"))
                   ELSE IF u.doc # NoDoc THEN Respond("patch", req, 200, u.doc)
                   ELSE Respond("patch", req, 404, Message("Movie not found"))
        /\ UNCHANGED reqs

\* GET /api/movies/:imdbID
Get(imdbID) ==
    LET movie == findOne(store, imdbID) IN
    /\ IF movie # NoDoc THEN Respond("get", [imdbID |-> imdbID], 200, movie)
       ELSE Respond("get", [imdbID |-> imdbID], 404, Message("Movie not found"))
    /\ UNCHANGED <<store, reqs>>

\* GET /api/movies
List ==
    /\ Respond("list", NoDoc, 200, [movies |-> store])
    /\ UNCHANGED <<store, reqs>>

\* DELETE /api/movies/:imdbID
Delete(imdbID) ==
    LET d == findOneAndDelete(store, imdbID) IN
    /\ store' = d.docs
    /\ IF d.doc # NoDoc
       THEN Respond("delete", [imdbID |-> imdbID], 200,
                    [message |-> "Movie successfully deleted", deletedMovie |-> d.doc])
       ELSE Respond("delete", [imdbID |-> imdbID], 404, Message("Movie not found"))
    /\ UNCHANGED reqs

-----------------------------------------------------------------------------------------------------------------------------------------------------
(* The service *)

Init ==
    /\ store = <<>>
    /\ reqs = [s \in Slots |-> Idle]
    /\ last = NoResponse
    /\ prev = NoCall

SameCall(r) ==
    /\ r.op = "by-id"
    /\ r.id = prev.req.id
    /\ r.myScore = prev.req.myScore
    /\ r.myReview = prev.req.myReview
    /\ "data" \in DOMAIN r => r.data = prev.req.data

\* the step is one of a handler that repeats the call of prev, alone
RepeatStep ==
    \E s \in Slots :
        /\ reqs'[s] # Idle
        /\ reqs'[s] # reqs[s]
        /\ SameCall(reqs'[s])
        /\ \A t \in Slots \ {s} : reqs'[t] = Idle

\* the bookkeeping of prev, which no handler reads
Track ==
    prev' = IF /\ last'.op = "by-id"
               /\ last'.status = 201
               /\ \A s \in Slots : reqs'[s] = Idle
            THEN [req |-> last'.req, body |-> last'.body, docs |-> store']
            ELSE IF prev # NoCall /\ RepeatStep THEN prev
            ELSE NoCall

\* the response leaves: the next step of any handler is seen after it
Deliver ==
    /\ last # NoResponse
    /\ last' = NoResponse
    /\ UNCHANGED <<store, reqs, prev>>

\* what the catalog may answer to the handler r
Answers(r, In) ==
    IF r.pc # "fetch" THEN {}
    ELSE { a \in CatalogReplies(In.hits) :
             (In.exact /\ r.op = "by-id" /\ "imdbID" \in DOMAIN a.data)
                => a.data.imdbID = r.id }

\* a step of a handler: the response of the step before it has left, and the
\* history is kept
Step(A) == last = NoResponse /\ A /\ Track

NoneInFlight == \A s \in Slots : reqs[s] = Idle

\* the steps of the POST handlers in the slots S
Posts(S, In) ==
    \/ \E s \in S, id \in In.ids, sc \in In.scores, rv \in In.reviews :
          Step(PostById(s, id, sc, rv))
    \/ \E s \in S, t \in In.titles, sc \in In.scores, rv \in In.reviews :
          Step(PostByTitle(s, t, sc, rv))
    \/ \E s \in S : \E reply \in Answers(reqs[s], In) : Step(CatalogReply(s, reply))
    \/ \E s \in S : Step(FindExisting(s))
    \/ \E s \in S : Step(WriteBack(s))

\* the handlers of one step; a client that waits sends none while a POST runs
Others(In) ==
    \/ \E id \in IDs, sc \in In.scores \cup {JsUndefined}, rv \in In.patches :
          Step((In.waits => NoneInFlight) /\ Patch(id, sc, rv))
    \/ \E id \in IDs : Step((In.waits => NoneInFlight) /\ Get(id))
    \/ Step((In.waits => NoneInFlight) /\ List)
    \/ \E id \in IDs : Step((In.waits => NoneInFlight) /\ Delete(id))

Next == Posts(Slots, RaceInputs) \/ Others(RaceInputs) \/ Deliver

\* clients that do not wait for each other: handlers interleave at their awaits
Spec == Init /\ [][Next]_vars

NextExact == Posts(Slots, ExactInputs) \/ Others(ExactInputs) \/ Deliver

\* the concurrent clients with the catalog that answers by-id lookups exactly
SpecExact == Init /\ [][NextExact]_vars

NextSeq == Posts({1}, AllInputs) \/ Others(AllInputs) \/ Deliver

\* one client that waits for each response before it sends the next request
SpecSeq == Init /\ [][NextSeq]_vars

-----------------------------------------------------------------------------
(* Vocabulary of the properties *)

\* the step sent a response
Responds == last = NoResponse /\ last' # NoResponse

\* the step is the write (updateOne or save) of the POST handler in slot s
Writes(s) == reqs[s].pc = "write" /\ reqs'[s] = Idle

\* the step is the synchronous prefix of a POST handler that went on to the catalog
Fetches(s) == reqs[s] = Idle /\ reqs'[s] # Idle

\* the number a body value stands for (a numeric string counts as its number)
ValueOf(v) == IF v.t = "number" THEN v.num ELSE StringToNumber(v.str)

\* a body value that is a number of the inclusive range [0, 10]
ScoreInRange(v) ==
    /\ v.t # "undefined"
    /\ ~ValueOf(v).nan
    /\ ~ValueOf(v).neg
    /\ ValueOf(v).i < MaxScore \/ (ValueOf(v).i = MaxScore /\ ValueOf(v).f = <<>>)

\* the documents stored under a key
Stored(docs, id) == { i \in 1..Len(docs) : docs[i].imdbID = id }

\* d holds every path of c, with c's value
Holds(d, c) == \A p \in DOMAIN c : p \in DOMAIN d /\ d[p] = c[p]

\* the candidate Record of a POST handler, as the schema stores it
Candidate(r) ==
    [p \in (DOMAIN r.data \cap ({"imdbID"} \cup CatalogPaths))
          \cup {"myScore"}
          \cup (IF r.myReview.t = "undefined" THEN {} ELSE {"myReview"}) |->
        CASE p = "myScore"  -> r.score
          [] p = "myReview" -> r.myReview.str
          [] OTHER          -> r.data[p]]

-----------------------------------------------------------------------------
(* C1 *)

\* C1: a request of upsert-by-id, upsert-by-title or partial-update-by-key whose
\* score is non-numeric or outside [0, 10] is answered 400, issues no catalog
\* request and leaves the stored Records as they were.
C1_InvalidScoreRejected ==
    [][ /\ \A s \in Slots : Fetches(s) => ScoreInRange(reqs'[s].myScore)
        /\ ( /\ Responds
             /\ last'.op \in {"by-id", "by-title", "patch"}
             /\ "myScore" \in DOMAIN last'.req
             /\ last'.op = "patch" => last'.req.myScore # JsUndefined
             /\ ~ScoreInRange(last'.req.myScore) )
           => (last'.status = 400 /\ store' = store /\ reqs' = reqs) ]_vars

-----------------------------------------------------------------------------
(* C2 *)

\* C2: every stored Record's myScore is an integer of the inclusive range
\* [0, 10], after any sequence of requests.
C2_StoredScoreIsIntegerInRange ==
    \A i \in 1..Len(store) :
        "myScore" \in DOMAIN store[i] =>
            /\ IsInteger(store[i].myScore)
            /\ ~store[i].myScore.neg
            /\ store[i].myScore.i <= MaxScore

-----------------------------------------------------------------------------
(* C3 *)

\* C3: after a successful upsert-by-id, get-by-key on the imdbID, with no write
\* in between, returns a Record whose myScore and myReview are the request's
\* and whose catalog fields are exactly those of the catalog response used.
C3_GetAfterUpsertReturnsInputs ==
    [][ ( /\ prev # NoCall
          /\ ScoreInRange(prev.req.myScore)
          /\ Responds
          /\ last'.op = "get"
          /\ last'.req.imdbID = prev.req.data.imdbID )
        => /\ last'.status = 200
           /\ last'.body = Candidate(prev.req)
           /\ last'.body.myScore = ValueOf(prev.req.myScore) ]_vars

-----------------------------------------------------------------------------
(* C4 *)

\* C4: an upsert whose imdbID collides with a stored Record replaces it
\* wholesale: after the write the stored Record holds exactly the candidate's
\* fields, nothing of the previous Record survives.
C4_CollidingUpsertReplacesWholesale ==
    [][ \A s \in Slots :
          ( /\ Writes(s)
            /\ last'.status = 201
            /\ Stored(store, reqs[s].data.imdbID) # {} )
          => \A i \in Stored(store', reqs[s].data.imdbID) :
                store'[i] = Candidate(reqs[s]) ]_vars

-----------------------------------------------------------------------------
(* C5 *)

\* C5: both upserts look the existing Record up by the imdbID the catalog
\* returned and replace it: a write that finds a Record stored under the
\* catalog's imdbID answers with success, and after a success the store holds
\* exactly one Record under that imdbID, with the candidate's content, also
\* when the caller's id is another one.
C5_UpsertKeyedByCatalogId ==
    [][ \A s \in Slots :
          Writes(s) =>
            /\ Stored(store, reqs[s].data.imdbID) # {} => last'.status = 201
            /\ last'.status = 201 =>
                 /\ Cardinality(Stored(store', reqs[s].data.imdbID)) = 1
                 /\ \A i \in Stored(store', reqs[s].data.imdbID) :
                       Holds(store'[i], Candidate(reqs[s])) ]_vars

-----------------------------------------------------------------------------
(* C6 *)

\* C6: in every reachable state, whatever the interleaving of upserts, partial
\* updates and deletes, the store holds at most one Record per imdbID.
C6_AtMostOneRecordPerKey ==
    \A i, j \in 1..Len(store) : store[i].imdbID = store[j].imdbID => i = j

\* two handlers raced to insert the same imdbID: one Record is stored and the
\* second save was refused
C6_Witness ==
    /\ last.op \in {"by-id", "by-title"}
    /\ last.status = 500
    /\ "found" \in DOMAIN last.req
    /\ ~last.req.found
    /\ last.req.op = "by-id" => last.req.id = last.req.data.imdbID
    /\ Cardinality(Stored(store, last.req.data.imdbID)) = 1

-----------------------------------------------------------------------------
(* C7 *)

\* C7: upsert-by-id is idempotent: a second call with the same (id, score,
\* review) and the same catalog response, right after a first one that
\* succeeded, succeeds with the same body and leaves the store as the first
\* call left it.
C7_UpsertByIdIdempotent ==
    [][ \A s \in Slots :
          (prev # NoCall /\ Writes(s)) =>
            /\ last'.status = 201
            /\ last'.body = prev.body
            /\ store' = prev.docs ]_vars

-----------------------------------------------------------------------------
(* C8 *)

\* C8: partial-update-by-key sets the fields the request holds and no other:
\* myScore is kept when only myReview is sent, myReview when only myScore is
\* sent, the catalog fields and every other Record are kept, no Record is
\* created, and a request that passes the validation for a key with no Record
\* is answered 404.
C8_PatchTouchesOnlyPresentFields ==
    [][ (Responds /\ last'.op = "patch") =>
          LET q == last'.req
              kept == ({"imdbID"} \cup CatalogPaths)
                      \cup (IF q.myScore = JsUndefined THEN {"myScore"} ELSE {})
                      \cup (IF q.myReview = JsUndefined THEN {"myReview"} ELSE {})
          IN  /\ Len(store') = Len(store)
              /\ \A i \in 1..Len(store) :
                    /\ store[i].imdbID # q.imdbID => store'[i] = store[i]
                    /\ Restrict(store'[i], kept) = Restrict(store[i], kept)
                    /\ DOMAIN store'[i] \subseteq DOMAIN store[i] \cup UserPaths
              /\ last'.status = 200 =>
                    \A i \in Stored(store', q.imdbID) :
                       /\ last'.body = store'[i]
                       /\ q.myScore # JsUndefined => store'[i].myScore = ValueOf(q.myScore)
                       /\ q.myReview # JsUndefined => store'[i].myReview = q.myReview.str
              /\ last'.status = 200 => Stored(store, q.imdbID) # {}
              /\ ( /\ Stored(store, q.imdbID) = {}
                   /\ q.myScore = JsUndefined \/ ScoreInRange(q.myScore) )
                 => last'.status = 404 ]_vars

\* a PATCH with myReview only has been answered 200 for a Record that keeps
\* its myScore and holds the new myReview
C8_Witness ==
    /\ last.op = "patch"
    /\ last.status = 200
    /\ last.req.myScore = JsUndefined
    /\ last.req.myReview # JsUndefined
    /\ \E i \in Stored(store, last.req.imdbID) :
          /\ "myScore" \in DOMAIN store[i]
          /\ store[i].myReview = last.req.myReview.str

-----------------------------------------------------------------------------
(* C9 *)

\* C9: delete-by-key on a key with no Record answers 404 and changes nothing;
\* on a key with a Record it removes that Record, and no other, and returns
\* it; from then on, until an upsert writes, the key has no Record and
\* get-by-key on it answers 404.
C9_DeleteRemovesAndGetNotFound ==
    [][ /\ (Responds /\ last'.op = "delete") =>
             LET k == last'.req.imdbID IN
             IF Stored(store, k) = {}
             THEN last'.status = 404 /\ store' = store
             ELSE /\ last'.status = 200
                  /\ \E i \in Stored(store, k) :
                        /\ last'.body.deletedMovie = store[i]
                        /\ store' = [j \in 1..(Len(store) - 1) |->
                                        IF j < i THEN store[j] ELSE store[j + 1]]
                  /\ Stored(store', k) = {}
        /\ (Responds /\ last'.op = "get") =>
             /\ store' = store
             /\ (last'.status = 404) = (Stored(store, last'.req.imdbID) = {})
             /\ last'.status \in {200, 404}
        /\ \A k \in IDs :
             (Stored(store, k) = {} /\ Stored(store', k) # {}) =>
                \E s \in Slots : Writes(s) ]_vars

\* a DELETE has been answered 200 with the Record it removed, and the key has
\* no Record left
C9_Witness ==
    /\ last.op = "delete"
    /\ last.status = 200
    /\ last.body.deletedMovie.imdbID = last.req.imdbID
    /\ Stored(store, last.req.imdbID) = {}
    /\ Len(store) > 0

-----------------------------------------------------------------------------
(* C10 *)

\* C10: when two valid upserts for the same identifier run concurrently, both
\* run to completion with a success response in every interleaving, and the
\* Record stored at the end is the candidate of the last write.
C10_ConcurrentUpsertsBothSucceed ==
    [][ \A s \in Slots :
          ( /\ Writes(s)
            /\ reqs[s].op = "by-id"
            /\ reqs[s].id = reqs[s].data.imdbID
            /\ ~reqs[s].found )
          => /\ last'.status = 201
             /\ \A i \in Stored(store', reqs[s].id) : Holds(store'[i], Candidate(reqs[s])) ]_vars

====
